---- MODULE Spec2Model ----
(***************************************************************************)
(* Model of server-setup/src/main.py: the /gps request handler, the NMEA   *)
(* batch parser and the four point builders, with the process-wide stats   *)
(* dictionary shared by the requests served on one asyncio event loop.     *)
(*                                                                         *)
(* Strings that the code inspects character by character (the request      *)
(* body, a sentence, a value handed to float()/int()) are sequences of     *)
(* one-character strings.  Floats are fixed-point numbers counted in       *)
(* tenths (PyFloat(25) is 2.5); integers are plain.                        *)
(***************************************************************************)
EXTENDS Integers, Sequences, FiniteSets, TLC

\* ------------------------------------------------------------------ bounds
\* Number of /gps requests accepted by the server.
NumReq == 2
\* Largest value the capture clock reaches.
MaxClock == 2
\* Largest number of lines of a body built from the sample sentences.
MaxLines == 2
\* Largest length of a body drawn character by character.
MaxRaw == 3
\* Largest number of attributes of a decoded message that differ from its base.
MaxVaried == 1

\* ------------------------------------------------------- program constants
\* sentence[:6]
KeyLen == 6
\* range(1, 5): satellite slots of a GSV sentence
GsvSlots == 4
\* range(1, 13): satellite-id slots of a GSA sentence
GsaSlots == 12
\* speed * 1.15078, in units of 1e-5
MphFactor == 115078
\* speed * 1.852, in units of 1e-3
KmhFactor == 1852

\* ------------------------------------------------------------ Python values
V(k, s, n) == [k |-> k, s |-> s, n |-> n]
\* hasattr(msg, a) is False
NoAttr == V("noattr", <<>>, 0)
PyNone == V("none", <<>>, 0)
PyStr(s) == V("str", s, 0)
PyInt(n) == V("int", <<>>, n)
\* n counts tenths
PyFloat(n) == V("float", <<>>, n)
PyInf == V("inf", <<>>, 0)
\* the marker of an exception leaving a call
Raised == V("raise", <<>>, 0)

\* bool(v)
Truthy(v) ==
    CASE v.k = "str" -> v.s # <<>>
      [] v.k \in {"int", "float"} -> v.n # 0
      [] v.k = "inf" -> TRUE
      [] OTHER -> FALSE

\* value is not None and value != ''
NotNoneNotEmpty(v) ==
    /\ v.k \notin {"none", "noattr"}
    /\ ~(v.k = "str" /\ v.s = <<>>)

Digit == {"0", "1", "2", "3", "4", "5", "6", "7", "8", "9"}

DigitVal(c) ==
    CASE c = "0" -> 0 [] c = "1" -> 1 [] c = "2" -> 2 [] c = "3" -> 3
      [] c = "4" -> 4 [] c = "5" -> 5 [] c = "6" -> 6 [] c = "7" -> 7
      [] c = "8" -> 8 [] c = "9" -> 9

DigitChar(d) == <<"0", "1", "2", "3", "4", "5", "6", "7", "8", "9">>[d + 1]

RECURSIVE IntOfStr(_)
IntOfStr(s) ==
    IF s = <<>> THEN 0
    ELSE 10 * IntOfStr(SubSeq(s, 1, Len(s) - 1)) + DigitVal(s[Len(s)])

\* int(s) accepts s
IsIntStr(s) == s # <<>> /\ \A i \in 1..Len(s) : s[i] \in Digit

\* float(s) accepts s
IsFloatStr(s) ==
    /\ \A i \in 1..Len(s) : s[i] \in Digit \cup {"."}
    /\ Cardinality({i \in 1..Len(s) : s[i] = "."}) <= 1
    /\ \E i \in 1..Len(s) : s[i] \in Digit

\* float(s) in tenths; digits after the first decimal are not represented
FloatOfStr(s) ==
    LET dots == {i \in 1..Len(s) : s[i] = "."}
        p == IF dots = {} THEN Len(s) + 1 ELSE CHOOSE i \in dots : TRUE
        frac == IF p + 1 <= Len(s) THEN DigitVal(s[p + 1]) ELSE 0
    IN  10 * IntOfStr(SubSeq(s, 1, p - 1)) + frac

RECURSIVE DigitsOf(_)
DigitsOf(n) ==
    IF n < 10 THEN <<DigitChar(n)>> ELSE DigitsOf(n \div 10) \o <<DigitChar(n % 10)>>

safe_float(value) ==
    IF NotNoneNotEmpty(value)
    THEN CASE value.k = "str" ->
                IF IsFloatStr(value.s) THEN PyFloat(FloatOfStr(value.s)) ELSE PyNone
           [] value.k = "int" -> PyFloat(10 * value.n)
           [] value.k = "float" -> value
           [] value.k = "inf" -> PyInf
    ELSE PyNone

\* int(float("inf")) raises OverflowError, which safe_int does not catch
safe_int(value) ==
    IF NotNoneNotEmpty(value)
    THEN CASE value.k = "str" ->
                IF IsIntStr(value.s) THEN PyInt(IntOfStr(value.s)) ELSE PyNone
           [] value.k = "int" -> value
           [] value.k = "float" -> PyInt(value.n \div 10)
           [] value.k = "inf" -> Raised
    ELSE PyNone

\* str(value)
py_str(value) ==
    CASE value.k = "str" -> value
      [] value.k = "int" -> PyStr(DigitsOf(value.n))
      [] value.k = "float" ->
            PyStr(DigitsOf(value.n \div 10) \o <<".">> \o DigitsOf(value.n % 10))
      [] value.k = "inf" -> PyStr(<<"i", "n", "f">>)
      [] OTHER -> PyStr(<<"N", "o", "n", "e">>)

Convert(converter, value) ==
    CASE converter = "safe_float" -> safe_float(value)
      [] converter = "safe_int" -> safe_int(value)
      [] converter = "str" -> py_str(value)
      [] OTHER -> value

\* ------------------------------------------------------------------ points
Point(name, timestamp) == [name |-> name, time |-> timestamp, fields |-> <<>>]

\* point.field(field_name, value)
Field(point, field_name, value) ==
    [point EXCEPT !.fields = (field_name :> value) @@ @]

Has(point, field_name) == field_name \in DOMAIN point.fields

\* lines 63-66: what add_field_if_valid does with the converted value
AddConverted(point, field_name, converted) ==
    IF converted = Raised THEN [point |-> point, ok |-> FALSE, raised |-> TRUE]
    ELSE IF converted # PyNone
         THEN [point |-> Field(point, field_name, converted), ok |-> TRUE,
               raised |-> FALSE]
         ELSE [point |-> point, ok |-> FALSE, raised |-> FALSE]

\* returns the point, whether the field was added, and whether the converter raised
add_field_if_valid(point, field_name, value, converter) ==
    IF NotNoneNotEmpty(value)
    THEN AddConverted(point, field_name, Convert(converter, value))
    ELSE [point |-> point, ok |-> FALSE, raised |-> FALSE]

HasAttr(msg, attr) == attr \in DOMAIN msg /\ msg[attr] # NoAttr

\* getattr(msg, attr, None)
GetAttr(msg, attr) == IF HasAttr(msg, attr) THEN msg[attr] ELSE PyNone

\* a builder at work: its point, its fields_added flag, whether a call raised
Building(point) == [point |-> point, added |-> FALSE, raised |-> FALSE]

\* if add_field_if_valid(...): fields_added = True
Merge(b, r) == [point |-> r.point, added |-> b.added \/ r.ok, raised |-> r.raised]

\* for attr, field, converter in mappings: if hasattr(msg, attr): add_field_if_valid(...)
RECURSIVE AddMapped(_, _, _, _)
AddMapped(b, msg, mappings, i) ==
    IF i > Len(mappings) \/ b.raised THEN b
    ELSE IF HasAttr(msg, mappings[i][1])
         THEN AddMapped(Merge(b, add_field_if_valid(b.point, mappings[i][2],
                                                    msg[mappings[i][1]], mappings[i][3])),
                        msg, mappings, i + 1)
         ELSE AddMapped(b, msg, mappings, i + 1)

\* what a builder hands back: a point, None or an exception, and the
\* stats.update it made
NoPoint == Point("", 0)
RetPoint(point, upd) == [kind |-> "point", point |-> point, upd |-> upd]
\* a builder that returns None drops the point it was filling: kept here to be looked at
RetNone(point) == [kind |-> "none", point |-> point, upd |-> <<>>]
RetRaise == [kind |-> "raise", point |-> NoPoint, upd |-> <<>>]

\* a faulty Emit: the point is returned whether or not a field was added
EmitAlways(fields_added, point) == RetPoint(point, <<>>)

\* return point if fields_added else None
Emit(fields_added, point) ==
    IF fields_added THEN RetPoint(point, <<>>) ELSE RetNone(point)

\* timestamp.isoformat()
IsoFormat(timestamp) == "T" \o ToString(timestamp)

\* ------------------------------------------------------------ sentence keys
K_GPGGA == <<"$", "G", "P", "G", "G", "A">>
K_GPRMC == <<"$", "G", "P", "R", "M", "C">>
K_GPGSV == <<"$", "G", "P", "G", "S", "V">>
K_GPGSA == <<"$", "G", "P", "G", "S", "A">>
K_GPVTG == <<"$", "G", "P", "V", "T", "G">>
K_GPZDA == <<"$", "G", "P", "Z", "D", "A">>

\* ---------------------------------------------------------------- builders
PositionMappings ==
    << <<"altitude", "altitude", "safe_float">>,
       <<"gps_qual", "fix_quality", "safe_int">>,
       <<"num_sats", "satellites", "safe_int">>,
       <<"horizontal_dil", "hdop", "safe_float">>,
       <<"spd_over_grnd", "speed_knots", "safe_float">>,
       <<"true_course", "course", "safe_float">>,
       <<"timestamp", "gps_time", "str">> >>

\* speed * 1.15078 and speed * 1.852 of a speed counted in tenths
SpeedMph(speed) == IF speed.k = "inf" THEN PyInf ELSE PyFloat(speed.n * MphFactor)
SpeedKmh(speed) == IF speed.k = "inf" THEN PyInf ELSE PyFloat(speed.n * KmhFactor)

\* lines 98-99
WithSpeed(point, speed) ==
    IF speed # PyNone
    THEN Field(Field(point, "speed_mph", SpeedMph(speed)), "speed_kmh", SpeedKmh(speed))
    ELSE point

\* the guard of line 96
HasSpeed(msg) == HasAttr(msg, "spd_over_grnd") /\ Truthy(msg["spd_over_grnd"])

\* lines 96-99
AddSpeedConversions(point, msg) ==
    IF HasSpeed(msg) THEN WithSpeed(point, safe_float(msg["spd_over_grnd"])) ELSE point

\* the guard of line 71
HasPosition(msg) ==
    /\ HasAttr(msg, "latitude") /\ HasAttr(msg, "longitude")
    /\ Truthy(msg["latitude"]) /\ Truthy(msg["longitude"])

\* lines 96-108
PositionFinish(b, msg, timestamp, sentence_type, lat, lon) ==
    IF b.raised THEN RetRaise
    ELSE RetPoint(Field(AddSpeedConversions(b.point, msg),
                        "source_sentence", PyStr(sentence_type)),
                  << [last_position |-> [lat |-> lat, lon |-> lon],
                      last_update |-> IsoFormat(timestamp)] >>)

\* lines 75-108
PositionFrom(msg, timestamp, sentence_type, lat, lon) ==
    IF lat = PyNone \/ lon = PyNone THEN RetNone(NoPoint)
    ELSE PositionFinish(
           AddMapped(Building(Field(Field(Point("gps_position", timestamp),
                                          "latitude", lat), "longitude", lon)),
                     msg, PositionMappings, 1),
           msg, timestamp, sentence_type, lat, lon)

create_position_point(msg, timestamp, sentence_type) ==
    IF ~HasPosition(msg) THEN RetNone(NoPoint)
    ELSE PositionFrom(msg, timestamp, sentence_type,
                      safe_float(msg["latitude"]), safe_float(msg["longitude"]))

\* f'{i:02d}'
Pad2(i) == IF i < 10 THEN "0" \o ToString(i) ELSE ToString(i)

GsvBasicFields ==
    << <<"num_messages", "total_messages", "safe_int">>,
       <<"msg_num", "message_number", "safe_int">>,
       <<"num_sv_in_view", "satellites_in_view", "safe_int">> >>

SatFields(i, sat_prn) ==
    << <<"elevation_" \o Pad2(i), "sat_" \o ToString(sat_prn) \o "_elevation", "safe_float">>,
       <<"azimuth_" \o Pad2(i), "sat_" \o ToString(sat_prn) \o "_azimuth", "safe_float">>,
       <<"snr_" \o Pad2(i), "sat_" \o ToString(sat_prn) \o "_snr", "safe_float">> >>

\* lines 148-149: satellites_processed += 1; fields_added = True
GsvCounted(b, r) ==
    [point |-> r.point, added |-> TRUE, raised |-> r.raised, n |-> b.n + 1]

\* lines 134-149; b also holds n, satellites_processed
GsvSat(b, msg, i, sat_prn) ==
    IF sat_prn = Raised THEN [b EXCEPT !.raised = TRUE]
    ELSE IF Truthy(sat_prn)
         THEN GsvCounted(b, AddMapped(
                  Building(Field(b.point, "sat_" \o ToString(sat_prn.n) \o "_prn", sat_prn)),
                  msg, SatFields(i, sat_prn.n), 1))
         ELSE b

\* lines 132-133
GsvSlot(b, msg, i, sv_prn) ==
    IF Truthy(sv_prn) /\ sv_prn # PyStr(<<>>)
    THEN GsvSat(b, msg, i, safe_int(sv_prn))
    ELSE b

\* for i in range(1, 5): ...
RECURSIVE GsvSlotLoop(_, _, _)
GsvSlotLoop(b, msg, i) ==
    IF i > GsvSlots \/ b.raised THEN b
    ELSE GsvSlotLoop(GsvSlot(b, msg, i, GetAttr(msg, "sv_prn_" \o Pad2(i))), msg, i + 1)

\* lines 151-157
GsvFinish(b) ==
    IF b.raised THEN RetRaise
    ELSE Emit(b.added,
              Field(IF b.n > 0
                    THEN Field(b.point, "satellites_processed", PyInt(b.n))
                    ELSE b.point,
                    "source_sentence", PyStr(K_GPGSV)))

\* lines 128-157
GsvSatellites(b, msg) ==
    IF b.raised THEN RetRaise
    ELSE GsvFinish(GsvSlotLoop([point |-> b.point, added |-> b.added,
                                raised |-> FALSE, n |-> 0], msg, 1))

create_satellite_point(msg, timestamp) ==
    GsvSatellites(AddMapped(Building(Point("satellite_data", timestamp)),
                            msg, GsvBasicFields, 1), msg)

\* ','.join(map(str, active_satellites))
RECURSIVE JoinIds(_)
JoinIds(ids) ==
    IF ids = <<>> THEN <<>>
    ELSE IF Len(ids) = 1 THEN DigitsOf(ids[1])
    ELSE DigitsOf(ids[1]) \o <<",">> \o JoinIds(Tail(ids))

\* if hasattr(msg, attr) and msg.attr: point.field(field_name, str(msg.attr));
\* fields_added = True
AddStrIfTruthy(b, msg, attr, field_name) ==
    IF HasAttr(msg, attr) /\ Truthy(msg[attr])
    THEN [b EXCEPT !.point = Field(@, field_name, py_str(msg[attr])), !.added = TRUE]
    ELSE b

\* lines 172-174
DopFixType(b, fix_type) ==
    IF fix_type = Raised THEN [b EXCEPT !.raised = TRUE]
    ELSE IF Truthy(fix_type)
         THEN [b EXCEPT !.point = Field(@, "fix_type", fix_type), !.added = TRUE]
         ELSE b

\* lines 170-174
DopFix(b, msg) ==
    IF HasAttr(msg, "mode_fix_type") /\ Truthy(msg["mode_fix_type"])
    THEN DopFixType(b, safe_int(msg["mode_fix_type"]))
    ELSE b

\* lines 182-185; b also holds active, the active_satellites list
GsaSat(b, i, sat_id) ==
    IF sat_id = Raised THEN [b EXCEPT !.raised = TRUE]
    ELSE IF Truthy(sat_id)
         THEN [b EXCEPT !.point = Field(@, "active_sat_" \o ToString(i), sat_id),
                        !.added = TRUE,
                        !.active = Append(@, sat_id.n)]
         ELSE b

\* lines 180-181
GsaSlot(b, i, sv_id) ==
    IF Truthy(sv_id) /\ sv_id # PyStr(<<>>) THEN GsaSat(b, i, safe_int(sv_id)) ELSE b

\* for i in range(1, 13): ...
RECURSIVE GsaSlotLoop(_, _, _)
GsaSlotLoop(b, msg, i) ==
    IF i > GsaSlots \/ b.raised THEN b
    ELSE GsaSlotLoop(GsaSlot(b, i, GetAttr(msg, "sv_id" \o Pad2(i))), msg, i + 1)

\* lines 187-190
DopList(b) ==
    IF ~b.raised /\ b.active # <<>>
    THEN [point |-> Field(Field(b.point, "active_satellites_count",
                                PyInt(Len(b.active))),
                          "active_satellites_list", PyStr(JoinIds(b.active))),
          added |-> TRUE, raised |-> FALSE]
    ELSE [point |-> b.point, added |-> b.added, raised |-> b.raised]

GsaDopFields ==
    << <<"pdop", "pdop", "safe_float">>,
       <<"hdop", "hdop", "safe_float">>,
       <<"vdop", "vdop", "safe_float">> >>

\* lines 199-205
DopFinish(b, msg) ==
    IF b.raised THEN RetRaise
    ELSE Emit(AddStrIfTruthy(b, msg, "system_id", "system_id").added,
              Field(AddStrIfTruthy(b, msg, "system_id", "system_id").point,
                    "source_sentence", PyStr(K_GPGSA)))

create_dop_point(msg, timestamp) ==
    DopFinish(
      AddMapped(
        DopList(
          GsaSlotLoop(
            DopFix(
              AddStrIfTruthy([point |-> Point("gps_dop_data", timestamp),
                              added |-> FALSE, raised |-> FALSE, active |-> <<>>],
                             msg, "mode", "mode"),
              msg),
            msg, 1)),
        msg, GsaDopFields, 1),
      msg)

NavFields ==
    << <<"true_track", "true_track_degrees", "safe_float">>,
       <<"mag_track", "magnetic_track_degrees", "safe_float">>,
       <<"spd_over_grnd_kts", "speed_knots", "safe_float">>,
       <<"spd_over_grnd_kmph", "speed_kmh", "safe_float">> >>

\* lines 230-232
NavFinish(b) ==
    Emit(b.added, Field(b.point, "source_sentence", PyStr(K_GPVTG)))

create_navigation_point(msg, timestamp) ==
    NavFinish(AddStrIfTruthy(AddMapped(Building(Point("gps_navigation_data", timestamp)),
                                       msg, NavFields, 1),
                             msg, "faa_mode", "faa_mode"))

\* a faulty parsers table: the $GPRMC entry is missing
RoutableNoRMC == {K_GPGGA, K_GPGSV, K_GPGSA, K_GPVTG}

\* the parsers table of parse_nmea_sentence
Routable == {K_GPGGA, K_GPRMC, K_GPGSV, K_GPGSA, K_GPVTG}

\* parser(): the builder the sentence type routes to
RunParser(sentence_type, msg, timestamp) ==
    CASE sentence_type \in {K_GPGGA, K_GPRMC} ->
            create_position_point(msg, timestamp, sentence_type)
      [] sentence_type = K_GPGSV -> create_satellite_point(msg, timestamp)
      [] sentence_type = K_GPGSA -> create_dop_point(msg, timestamp)
      [] sentence_type = K_GPVTG -> create_navigation_point(msg, timestamp)

\* --------------------------------------------------------------- tokenizer
Whitespace == {" ", "\n", "\r"}

RECURSIVE LStrip(_)
LStrip(s) == IF s # <<>> /\ s[1] \in Whitespace THEN LStrip(Tail(s)) ELSE s

RECURSIVE RStrip(_)
RStrip(s) ==
    IF s # <<>> /\ s[Len(s)] \in Whitespace THEN RStrip(SubSeq(s, 1, Len(s) - 1)) ELSE s

\* s.strip()
Strip(s) == RStrip(LStrip(s))

\* s.replace('\r\n', '\n')
RECURSIVE ReplaceCRLF(_)
ReplaceCRLF(s) ==
    IF s = <<>> THEN <<>>
    ELSE IF Len(s) >= 2 /\ s[1] = "\r" /\ s[2] = "\n"
         THEN <<"\n">> \o ReplaceCRLF(SubSeq(s, 3, Len(s)))
         ELSE <<s[1]>> \o ReplaceCRLF(Tail(s))

\* a faulty ReplaceCR: bare carriage returns are left in place
KeepCR(s) == s

\* s.replace('\r', '\n')
ReplaceCR(s) == [i \in 1..Len(s) |-> IF s[i] = "\r" THEN "\n" ELSE s[i]]

\* s.split('\n')
RECURSIVE SplitLF(_)
SplitLF(s) ==
    LET brk == {i \in 1..Len(s) : s[i] = "\n"} IN
    IF brk = {} THEN <<s>>
    ELSE LET i == CHOOSE j \in brk : \A k \in brk : j <= k IN
         <<SubSeq(s, 1, i - 1)>> \o SplitLF(SubSeq(s, i + 1, Len(s)))

\* [line.strip() for line in lines if line.strip()]
RECURSIVE StripNonEmpty(_)
StripNonEmpty(lines) ==
    IF lines = <<>> THEN <<>>
    ELSE IF Strip(lines[1]) # <<>>
         THEN <<Strip(lines[1])>> \o StripNonEmpty(Tail(lines))
         ELSE StripNonEmpty(Tail(lines))

\* lines 358-359 of receive_gps_data, applied to the stripped body
Tokenize(nmea_data) == StripNonEmpty(SplitLF(ReplaceCR(ReplaceCRLF(nmea_data))))

\* sentence[:6]
TypeKey(sentence) ==
    SubSeq(sentence, 1, IF Len(sentence) < KeyLen THEN Len(sentence) ELSE KeyLen)

StartsWithDollar(sentence) == sentence # <<>> /\ sentence[1] = "$"

HasNewline(sentence) == \E i \in 1..Len(sentence) : sentence[i] \in {"\n", "\r"}

\* ------------------------------------------------------------- environment
Reqs == 1..NumReq

\* a line of the request body followed by its terminator
Line(sentence) == sentence \o <<"\r", "\n">>

\* sample sentences: a type key, a comma and one payload character
S_GGA1 == K_GPGGA \o <<",", "1">>
S_RMC1 == K_GPRMC \o <<",", "1">>
S_GSA0 == K_GPGSA \o <<",", "0">>
S_GSV8 == K_GPGSV \o <<",", "8">>
S_ZDA1 == K_GPZDA \o <<",", "1">>
S_GGA9 == K_GPGGA \o <<",", "9">>
S_TEXT == <<"x">>

SampleSentences == {S_GGA1, S_RMC1, S_GSA0, S_GSV8, S_ZDA1, S_GGA9, S_TEXT}

\* bodies of at most n sample lines
RECURSIVE BodiesUpTo(_)
BodiesUpTo(n) ==
    IF n = 0 THEN {<<>>}
    ELSE LET prev == BodiesUpTo(n - 1) IN
         prev \cup {b \o Line(t) : b \in prev, t \in SampleSentences}

SampleBodies == BodiesUpTo(MaxLines)

\* bodies drawn character by character
RawAlphabet == {"$", "x", " ", "\r", "\n"}

RECURSIVE RawUpTo(_)
RawUpTo(n) ==
    IF n = 0 THEN {<<>>}
    ELSE LET prev == RawUpTo(n - 1) IN
         prev \cup {Append(b, c) : b \in prev, c \in RawAlphabet}

RawBodies == RawUpTo(MaxRaw)

\* one-line bodies, one per routable sentence type
RoutableBodies == {Line(k \o <<",", "1">>) : k \in Routable}

PosAttrs ==
    {"latitude", "longitude", "altitude", "gps_qual", "num_sats", "horizontal_dil",
     "spd_over_grnd", "true_course", "timestamp"}

GsvAttrs ==
    {"num_messages", "msg_num", "num_sv_in_view"}
    \cup {pre \o Pad2(i) : pre \in {"sv_prn_", "elevation_", "azimuth_", "snr_"},
                           i \in 1..GsvSlots}

GsaAttrs ==
    {"mode", "mode_fix_type", "pdop", "hdop", "vdop", "system_id"}
    \cup {"sv_id" \o Pad2(i) : i \in 1..GsaSlots}

VtgAttrs == {"true_track", "mag_track", "spd_over_grnd_kts", "spd_over_grnd_kmph", "faa_mode"}

AttrsOf(key) ==
    CASE key \in {K_GPGGA, K_GPRMC} -> PosAttrs
      [] key = K_GPGSV -> GsvAttrs
      [] key = K_GPGSA -> GsaAttrs
      [] key = K_GPVTG -> VtgAttrs
      [] OTHER -> {}

\* a decoded GGA sentence: pynmea2 gives no spd_over_grnd or true_course on GGA
MsgGGA1 ==
    [a \in PosAttrs |->
        CASE a = "latitude" -> PyFloat(515)
          [] a = "longitude" -> PyFloat(12)
          [] a = "altitude" -> PyFloat(1000)
          [] a = "gps_qual" -> PyInt(1)
          [] a = "num_sats" -> PyStr(<<"0", "8">>)
          [] a = "horizontal_dil" -> PyStr(<<"0", ".", "9">>)
          [] a = "timestamp" -> PyInt(123519)
          [] OTHER -> NoAttr]

\* a decoded RMC sentence of a receiver at rest
MsgRMC1 ==
    [a \in PosAttrs |->
        CASE a = "latitude" -> PyFloat(480)
          [] a = "longitude" -> PyFloat(115)
          [] a = "spd_over_grnd" -> PyFloat(0)
          [] a = "true_course" -> PyFloat(844)
          [] a = "timestamp" -> PyInt(123519)
          [] OTHER -> NoAttr]

\* a decoded GSA sentence with every field empty
MsgGSA0 == [a \in GsaAttrs |-> IF a = "system_id" THEN NoAttr ELSE PyStr(<<>>)]

\* a decoded GSV sentence whose first PRN does not fit an int
MsgGSV8 ==
    [a \in GsvAttrs |->
        CASE a \in {"num_messages", "msg_num"} -> PyStr(<<"1">>)
          [] a = "sv_prn_01" -> PyInf
          [] OTHER -> PyStr(<<>>)]

MsgZDA1 == [a \in {"timestamp"} |-> PyInt(123519)]

\* pynmea2.parse(sentence) of the sample sentences; anything else is a ParseError
Decodes(sentence) == sentence \in {S_GGA1, S_RMC1, S_GSA0, S_GSV8, S_ZDA1}

DecodeTable(sentence) ==
    CASE sentence = S_GGA1 -> MsgGGA1
      [] sentence = S_RMC1 -> MsgRMC1
      [] sentence = S_GSA0 -> MsgGSA0
      [] sentence = S_GSV8 -> MsgGSV8
      [] sentence = S_ZDA1 -> MsgZDA1

\* attribute values a decoder may hand to a builder
Vals ==
    {NoAttr, PyNone, PyStr(<<>>), PyStr(<<"0">>), PyStr(<<"0", ".", "0">>),
     PyStr(<<"7">>), PyStr(<<"x">>), PyFloat(0), PyFloat(25), PyInf}

\* messages that differ from base in at most n attributes
RECURSIVE Vary(_, _)
Vary(base, n) ==
    IF n = 0 THEN {base}
    ELSE LET prev == Vary(base, n - 1) IN
         prev \cup {[m EXCEPT ![a] = v] : m \in prev, a \in DOMAIN base, v \in Vals}

\* base messages: every attribute None; every attribute filled in; every
\* attribute empty but the fix and the three basic GSV fields
BaseNone(key) ==
    [a \in AttrsOf(key) |->
        IF a \in {"latitude", "longitude"} THEN PyFloat(515) ELSE PyNone]

BaseFull(key) ==
    [a \in AttrsOf(key) |->
        CASE a \in {"latitude", "longitude", "altitude", "spd_over_grnd", "true_course"}
                -> PyFloat(515)
          [] a \in {"mode", "faa_mode", "system_id"} -> PyStr(<<"A">>)
          [] OTHER -> PyStr(<<"7">>)]

BaseEmpty(key) ==
    [a \in AttrsOf(key) |->
        CASE a \in {"latitude", "longitude"} -> PyFloat(515)
          [] a \in {"num_messages", "msg_num", "num_sv_in_view"} -> PyStr(<<"7">>)
          [] OTHER -> PyStr(<<>>)]

\* every message a decoder may return for a sentence of this type
AnyMsgs(key) ==
    Vary(BaseNone(key), MaxVaried) \cup Vary(BaseFull(key), MaxVaried)
    \cup Vary(BaseEmpty(key), MaxVaried)

\* -------------------------------------------------------------------- state
VARIABLES
    stats,      \* the global stats dictionary
    clock,      \* what datetime.utcnow() returns now
    loop,       \* the request whose coroutine the event loop is running, 0 if none
    pc,         \* where each request is in receive_gps_data
    loc,        \* the local variables of each request
    fin,        \* what each request ended with, and the write calls it made
    acct,       \* history: what the requests added to each counter, summed
    posWrites   \* history: the (last_position, last_update) pairs written

vars == <<stats, clock, loop, pc, loc, fin, acct, posWrites>>

INVALID == <<"invalid">>
EMBEDDED == <<"embedded-newlines">>

\* the locals at the start of a request
Locals0 ==
    [raw_data |-> <<>>, sentences |-> <<>>, i |-> 1, sentence |-> <<>>,
     sentence_type |-> <<>>, parsed0 |-> 0,
     msg |-> <<>>, timestamp |-> -1, ret |-> RetNone(NoPoint),
     points_to_write |-> <<>>, parsed_sentences |-> <<>>, skipped_sentences |-> <<>>,
     sentence_type_counts |-> <<>>, tmp |-> 0, log |-> <<>>]

\* history of one sentence of the batch
LogEntry(class, key) ==
    [class |-> class, key |-> key, decoded |-> "no", read |-> -1, ran |-> FALSE,
     ret |-> "", out |-> ""]

\* history of a request: its response, its write calls, the batch it was sent, the
\* points it built and how far sentences_parsed moved while it ran
Fin0 ==
    [result |-> "", writes |-> 0, failed |-> FALSE, batch |-> <<>>, points |-> 0,
     delta |-> 0]

\* lines 34-40
Stats0 ==
    [sentences_received |-> 0, sentences_parsed |-> 0, points_written |-> 0,
     last_position |-> <<>>, last_update |-> <<>>]

InitServing(serving) ==
    /\ stats = Stats0
    /\ clock = 0
    /\ loop = 0
    /\ pc = [r \in Reqs |-> IF r \in serving THEN "await_body" ELSE "idle"]
    /\ loc = [r \in Reqs |-> Locals0]
    /\ fin = [r \in Reqs |-> Fin0]
    /\ acct = [received |-> 0, built |-> 0, written |-> 0]
    /\ posWrites = {}

Init == InitServing(Reqs)

\* a faulty scheduling: the handler is a plain function run on a thread pool, so
\* requests interleave at every step
Preemptible(r) == TRUE

\* receive_gps_data is a coroutine: once resumed it runs on the event loop
\* until it awaits or returns, and its only await is request.body()
Scheduled(r) == loop \in {0, r}

\* the request returns or raises: its locals are gone and the loop is free
Return(r, result, writes, failed) ==
    /\ pc' = [pc EXCEPT ![r] = "done"]
    /\ fin' = [fin EXCEPT ![r] =
                [result |-> result, writes |-> writes, failed |-> failed,
                 batch |-> loc[r].sentences,
                 points |-> Len(loc[r].points_to_write),
                 delta |-> stats'.sentences_parsed - loc[r].parsed0]]
    /\ loc' = [loc EXCEPT ![r] = Locals0]
    /\ loop' = 0

\* the clock advances
Tick ==
    /\ clock < MaxClock
    /\ clock' = clock + 1
    /\ UNCHANGED <<stats, loop, pc, loc, fin, acct, posWrites>>

\* lines 349-359: the body arrives; an empty one raises HTTPException(400),
\* which the handler's own except clause turns into a 500
ReceiveBody(r, bodies) ==
    /\ pc[r] = "await_body"
    /\ Scheduled(r)
    /\ UNCHANGED <<stats, clock, acct, posWrites>>
    /\ \E raw_data \in bodies :
         LET nmea_data == Strip(raw_data) IN
         IF nmea_data = <<>>
         THEN /\ pc' = [pc EXCEPT ![r] = "done"]
              /\ fin' = [fin EXCEPT ![r].result = "error500"]
              /\ loop' = 0
              /\ UNCHANGED loc
         ELSE /\ loc' = [loc EXCEPT ![r].raw_data = raw_data,
                                    ![r].sentences = Tokenize(nmea_data),
                                    ![r].parsed0 = stats.sentences_parsed]
              /\ pc' = [pc EXCEPT ![r] = "count_read"]
              /\ loop' = r
              /\ UNCHANGED fin

\* line 360, the read of stats["sentences_received"] += len(sentences)
CountRead(r) ==
    /\ pc[r] = "count_read"
    /\ Scheduled(r)
    /\ loc' = [loc EXCEPT ![r].tmp = stats.sentences_received]
    /\ pc' = [pc EXCEPT ![r] = "count_write"]
    /\ loop' = r
    /\ UNCHANGED <<stats, clock, fin, acct, posWrites>>

\* line 360, the write
CountWrite(r) ==
    /\ pc[r] = "count_write"
    /\ Scheduled(r)
    /\ stats' = [stats EXCEPT !.sentences_received = loc[r].tmp + Len(loc[r].sentences)]
    /\ acct' = [acct EXCEPT !.received = @ + Len(loc[r].sentences)]
    /\ pc' = [pc EXCEPT ![r] = "loop"]
    /\ loop' = r
    /\ UNCHANGED <<clock, loc, fin, posWrites>>

\* a faulty SkipAs: the sentence is passed over without an entry in skipped_sentences
SkipSilently(l, reason) == [l EXCEPT !.i = @ + 1, !.log[l.i].out = "skipped"]

\* skipped_sentences.append(reason), and on to the next sentence
SkipAs(l, reason) ==
    [l EXCEPT !.skipped_sentences = Append(@, reason), !.i = @ + 1,
              !.log[l.i].out = "skipped"]

\* points_to_write.append(point); parsed_sentences.append(sentence_type)
KeepPoint(l) ==
    [l EXCEPT !.points_to_write = Append(@, l.ret.point),
              !.parsed_sentences = Append(@, l.sentence_type),
              !.i = @ + 1,
              !.log[l.i].out = "parsed"]

\* sentence_type_counts[sentence_type] = sentence_type_counts.get(sentence_type, 0) + 1
Tally(counts, sentence_type) ==
    IF sentence_type \in DOMAIN counts
    THEN [counts EXCEPT ![sentence_type] = @ + 1]
    ELSE (sentence_type :> 1) @@ counts

\* lines 281-291: one sentence of the batch
ClassifyAs(r, l, sentence) ==
    IF sentence = <<>> \/ ~StartsWithDollar(sentence)
    THEN /\ loc' = [loc EXCEPT ![r] =
               SkipAs([l EXCEPT !.log = Append(@, LogEntry("invalid", <<>>))], INVALID)]
         /\ UNCHANGED pc
    ELSE IF HasNewline(sentence)
    THEN /\ loc' = [loc EXCEPT ![r] =
               SkipAs([l EXCEPT !.log = Append(@, LogEntry("embedded", <<>>))], EMBEDDED)]
         /\ UNCHANGED pc
    ELSE /\ loc' = [loc EXCEPT ![r] =
               [l EXCEPT !.sentence = sentence,
                         !.sentence_type = TypeKey(sentence),
                         !.sentence_type_counts = Tally(@, TypeKey(sentence)),
                         !.log = Append(@, LogEntry("typed", TypeKey(sentence)))]]
         /\ pc' = [pc EXCEPT ![r] = "decode"]

\* lines 280-291: the next sentence of the batch, or the end of the batch
Classify(r) ==
    /\ pc[r] = "loop"
    /\ Scheduled(r)
    /\ IF loc[r].i > Len(loc[r].sentences)
       THEN /\ pc' = [pc EXCEPT ![r] = "write"]
            /\ UNCHANGED loc
       ELSE ClassifyAs(r, loc[r], Strip(loc[r].sentences[loc[r].i]))
    /\ loop' = r
    /\ UNCHANGED <<stats, clock, fin, acct, posWrites>>

\* line 238 on a sample sentence: the message, or a ParseError caught at line 267
DecodeSample(r) ==
    /\ pc[r] = "decode"
    /\ Scheduled(r)
    /\ LET l == loc[r] IN
       IF Decodes(l.sentence)
       THEN /\ loc' = [loc EXCEPT ![r] =
                  [l EXCEPT !.msg = DecodeTable(l.sentence), !.log[l.i].decoded = "ok"]]
            /\ pc' = [pc EXCEPT ![r] = "clock"]
       ELSE /\ loc' = [loc EXCEPT ![r] =
                  SkipAs([l EXCEPT !.log[l.i].decoded = "raise"], l.sentence_type)]
            /\ pc' = [pc EXCEPT ![r] = "loop"]
    /\ loop' = r
    /\ UNCHANGED <<stats, clock, fin, acct, posWrites>>

\* line 238 with a decoder that may return any message of the sentence's type
DecodeAny(r) ==
    /\ pc[r] = "decode"
    /\ Scheduled(r)
    /\ \E m \in AnyMsgs(loc[r].sentence_type) :
         loc' = [loc EXCEPT ![r].msg = m, ![r].log[loc[r].i].decoded = "ok"]
    /\ pc' = [pc EXCEPT ![r] = "clock"]
    /\ loop' = r
    /\ UNCHANGED <<stats, clock, fin, acct, posWrites>>

\* a faulty utcnow: the reading made for the first decoded sentence of the batch is
\* kept for the rest of it
utcnowOncePerBatch(r) == IF loc[r].timestamp >= 0 THEN loc[r].timestamp ELSE clock

\* datetime.utcnow()
utcnow(r) == clock

\* line 239
ReadClock(r) ==
    /\ pc[r] = "clock"
    /\ Scheduled(r)
    /\ loc' = [loc EXCEPT ![r].timestamp = utcnow(r), ![r].log[loc[r].i].read = clock]
    /\ pc' = [pc EXCEPT ![r] = "route"]
    /\ loop' = r
    /\ UNCHANGED <<stats, clock, fin, acct, posWrites>>

\* line 251: some key of the parsers table holds the sentence type
Routes(sentence_type) == sentence_type \in Routable

\* stats.update({...}) of the position builder
ApplyUpdate(st, upd) ==
    IF upd = <<>> THEN st
    ELSE [st EXCEPT !.last_position = <<upd[1].last_position>>,
                    !.last_update = <<upd[1].last_update>>]

\* lines 253-263: what parse_nmea_sentence does with what the builder handed back
Routed(r, l, ret) ==
    IF ret.kind = "point"
    THEN /\ loc' = [loc EXCEPT ![r] =
               [l EXCEPT !.ret = ret, !.log[l.i].ran = TRUE, !.log[l.i].ret = ret.kind]]
         /\ pc' = [pc EXCEPT ![r] = "parsed_read"]
         /\ stats' = ApplyUpdate(stats, ret.upd)
         /\ posWrites' = posWrites \cup
                {<<ret.upd[j].last_position, ret.upd[j].last_update>> :
                    j \in 1..Len(ret.upd)}
    ELSE /\ loc' = [loc EXCEPT ![r] =
               SkipAs([l EXCEPT !.ret = ret, !.log[l.i].ran = TRUE,
                                !.log[l.i].ret = ret.kind],
                      l.sentence_type)]
         /\ pc' = [pc EXCEPT ![r] = "loop"]
         /\ UNCHANGED <<stats, posWrites>>

\* lines 240-265: route the decoded sentence to its builder and run it
Route(r) ==
    /\ pc[r] = "route"
    /\ Scheduled(r)
    /\ IF ~Routes(loc[r].sentence_type)
       THEN /\ loc' = [loc EXCEPT ![r] = SkipAs(loc[r], loc[r].sentence_type)]
            /\ pc' = [pc EXCEPT ![r] = "loop"]
            /\ UNCHANGED <<stats, posWrites>>
       ELSE Routed(r, loc[r],
                   RunParser(loc[r].sentence_type, loc[r].msg, loc[r].timestamp))
    /\ loop' = r
    /\ UNCHANGED <<clock, fin, acct>>

\* line 255, the read of stats["sentences_parsed"] += 1
ParsedRead(r) ==
    /\ pc[r] = "parsed_read"
    /\ Scheduled(r)
    /\ loc' = [loc EXCEPT ![r].tmp = stats.sentences_parsed]
    /\ pc' = [pc EXCEPT ![r] = "parsed_write"]
    /\ loop' = r
    /\ UNCHANGED <<stats, clock, fin, acct, posWrites>>

\* a faulty IncParsed: the counter is stored back unchanged
KeepParsed(n) == n

\* the value line 255 stores
IncParsed(n) == n + 1

\* line 255, the write; the point is returned and kept (lines 257, 294-296)
ParsedWrite(r) ==
    /\ pc[r] = "parsed_write"
    /\ Scheduled(r)
    /\ stats' = [stats EXCEPT !.sentences_parsed = IncParsed(loc[r].tmp)]
    /\ acct' = [acct EXCEPT !.built = @ + 1]
    /\ loc' = [loc EXCEPT ![r] = KeepPoint(loc[r])]
    /\ pc' = [pc EXCEPT ![r] = "loop"]
    /\ loop' = r
    /\ UNCHANGED <<clock, fin, posWrites>>

\* lines 431-443: nothing to write, the request succeeds
NoWrite(r) ==
    /\ pc[r] = "write"
    /\ Scheduled(r)
    /\ loc[r].points_to_write = <<>>
    /\ UNCHANGED <<stats, clock, acct, posWrites>>
    /\ Return(r, "success", 0, FALSE)

\* line 425: write_api.write(...) returns
WriteOk(r) ==
    /\ pc[r] = "write"
    /\ Scheduled(r)
    /\ loc[r].points_to_write # <<>>
    /\ fin' = [fin EXCEPT ![r].writes = @ + 1]
    /\ pc' = [pc EXCEPT ![r] = "written_read"]
    /\ loop' = r
    /\ UNCHANGED <<stats, clock, loc, acct, posWrites>>

\* a faulty OnWriteFailure: the points are counted as written before the write is
\* known to have succeeded
CountAnyway(st, n) == [st EXCEPT !.points_written = @ + n]

\* what the handler does to stats when the write raised (lines 428-430, 445-447)
OnWriteFailure(st, n) == st

\* line 425: write_api.write(...) raises; HTTPException(500) leaves the handler
WriteFail(r) ==
    /\ pc[r] = "write"
    /\ Scheduled(r)
    /\ loc[r].points_to_write # <<>>
    /\ stats' = OnWriteFailure(stats, Len(loc[r].points_to_write))
    /\ Return(r, "error500", fin[r].writes + 1, TRUE)
    /\ UNCHANGED <<clock, acct, posWrites>>

\* line 426, the read of stats["points_written"] += len(points_to_write)
WrittenRead(r) ==
    /\ pc[r] = "written_read"
    /\ Scheduled(r)
    /\ loc' = [loc EXCEPT ![r].tmp = stats.points_written]
    /\ pc' = [pc EXCEPT ![r] = "written_write"]
    /\ loop' = r
    /\ UNCHANGED <<stats, clock, fin, acct, posWrites>>

\* line 426, the write, then the response of lines 434-443
WrittenWrite(r) ==
    /\ pc[r] = "written_write"
    /\ Scheduled(r)
    /\ stats' = [stats EXCEPT !.points_written =
                    loc[r].tmp + Len(loc[r].points_to_write)]
    /\ acct' = [acct EXCEPT !.written = @ + Len(loc[r].points_to_write)]
    /\ Return(r, "success", fin[r].writes, FALSE)
    /\ UNCHANGED <<clock, posWrites>>

\* the steps of a request that do not depend on where bodies and messages come from
Step(r) ==
    \/ CountRead(r) \/ CountWrite(r) \/ Classify(r) \/ ReadClock(r) \/ Route(r)
    \/ ParsedRead(r) \/ ParsedWrite(r) \/ NoWrite(r) \/ WriteOk(r) \/ WriteFail(r)
    \/ WrittenRead(r) \/ WrittenWrite(r)

\* one-line bodies of the sample sentences, and the empty body
OneLineBodies == {<<>>} \cup {Line(t) : t \in SampleSentences}

\* every accepted request is served, each sent at most one sample sentence
Next ==
    \/ Tick
    \/ \E r \in Reqs : ReceiveBody(r, OneLineBodies) \/ DecodeSample(r) \/ Step(r)

Spec == Init /\ [][Next]_vars

\* one request, sent a batch of sample sentences
NextBatch ==
    \/ Tick
    \/ \E r \in Reqs : ReceiveBody(r, SampleBodies) \/ DecodeSample(r) \/ Step(r)

SpecBatch == InitServing({1}) /\ [][NextBatch]_vars

\* one request, sent an arbitrary short body; no such body holds a sentence that
\* decodes, so the steps after a successful decode are left out
NextTok ==
    \E r \in Reqs :
        \/ ReceiveBody(r, RawBodies) \/ CountRead(r) \/ CountWrite(r)
        \/ Classify(r) \/ DecodeSample(r) \/ NoWrite(r)

SpecTok == InitServing({1}) /\ [][NextTok]_vars

\* one request, sent one routable sentence that the decoder may turn into any message
NextBuild ==
    \E r \in Reqs : ReceiveBody(r, RoutableBodies) \/ DecodeAny(r) \/ Step(r)

SpecBuild == InitServing({1}) /\ [][NextBuild]_vars

\* ------------------------------------------------------------------ claims
\* the five sentence types the specification routes to a builder
FiveTypes == {K_GPGGA, K_GPRMC, K_GPGSV, K_GPGSA, K_GPVTG}

\* the requests that are inside parse_nmea_sentences, between two sentences or after
\* the last one
BetweenSentences(r) == pc[r] \in {"loop", "write"}

RECURSIVE SumCounts(_)
SumCounts(counts) ==
    IF DOMAIN counts = {} THEN 0
    ELSE LET k == CHOOSE x \in DOMAIN counts : TRUE IN
         counts[k] + SumCounts([x \in DOMAIN counts \ {k} |-> counts[x]])

\* how many of the first j sentences ended in the list named by out
CountOut(log, j, out) == Cardinality({k \in 1..j : log[k].out = out})

\* the entry a sentence must leave in skipped_sentences
SkipReason(e) ==
    CASE e.class = "invalid" -> INVALID
      [] e.class = "embedded" -> EMBEDDED
      [] OTHER -> e.key

\* C1: every sentence of a batch leaves exactly one entry in exactly one of
\* parsed_sentences (with one point) and skipped_sentences (its type key, "invalid"
\* or "embedded-newlines"); the lists and the tally add up, and a sentence whose
\* decode or builder raised is skipped under its type key while the batch goes on
\* to its last sentence.
C1_OneEntryPerSentence ==
    \A r \in Reqs :
        BetweenSentences(r) =>
            LET l == loc[r] IN
            /\ Len(l.log) = l.i - 1
            /\ Len(l.parsed_sentences) + Len(l.skipped_sentences) = l.i - 1
            /\ Len(l.points_to_write) = Len(l.parsed_sentences)
            /\ SumCounts(l.sentence_type_counts)
                 = Len(l.parsed_sentences)
                   + Cardinality({j \in DOMAIN l.skipped_sentences :
                                    l.skipped_sentences[j] \notin {INVALID, EMBEDDED}})
            /\ \A j \in 1..(l.i - 1) :
                 /\ l.log[j].out \in {"parsed", "skipped"}
                 /\ l.log[j].out = "parsed" =>
                      /\ l.log[j].ret = "point"
                      /\ l.parsed_sentences[CountOut(l.log, j, "parsed")]
                           = TypeKey(l.sentences[j])
                 /\ l.log[j].out = "skipped" =>
                      l.skipped_sentences[CountOut(l.log, j, "skipped")]
                        = SkipReason(l.log[j])
                 /\ (l.log[j].decoded = "raise" \/ l.log[j].ret = "raise") =>
                      /\ l.log[j].out = "skipped"
                      /\ SkipReason(l.log[j]) = TypeKey(l.sentences[j])
            /\ pc[r] = "write" => l.i - 1 = Len(l.sentences)

\* a two-sentence batch was processed to its end: one sentence failed to decode,
\* the other gave a point
C1_Witness ==
    \E r \in Reqs :
        /\ pc[r] = "write"
        /\ Len(loc[r].sentences) = 2
        /\ \E j, k \in 1..2 :
             loc[r].log[j].decoded = "raise" /\ loc[r].log[k].out = "parsed"

\* C2 as stated: the decoder is invoked only for sentences of the five routable types.
C2_DecodeOnlyRoutable ==
    \A r \in Reqs :
        \A j \in DOMAIN loc[r].log :
            loc[r].log[j].decoded # "no" => loc[r].log[j].key \in FiveTypes

\* C2 as amended: every sentence that reaches parse_nmea_sentence is handed to the
\* decoder, whatever its type; a builder runs exactly for the decoded sentences of
\* the five types, and a sentence of any other type is skipped under its type key
\* with no builder run.
C2_UnroutableSkippedAfterDecode ==
    \A r \in Reqs :
        BetweenSentences(r) =>
            LET l == loc[r] IN
            \A j \in 1..(l.i - 1) :
                l.log[j].class = "typed" =>
                    /\ l.log[j].decoded \in {"ok", "raise"}
                    /\ l.log[j].ran <=> (l.log[j].decoded = "ok"
                                          /\ l.log[j].key \in FiveTypes)
                    /\ l.log[j].key \notin FiveTypes =>
                         /\ l.log[j].out = "skipped"
                         /\ l.skipped_sentences[CountOut(l.log, j, "skipped")]
                              = l.log[j].key

\* a $GPZDA sentence was decoded and then skipped under its key
C2_Witness ==
    \E r \in Reqs :
        /\ BetweenSentences(r)
        /\ \E j \in 1..(loc[r].i - 1) :
             /\ loc[r].log[j].key = K_GPZDA
             /\ loc[r].log[j].decoded = "ok"
             /\ loc[r].log[j].out = "skipped"
             /\ ~loc[r].log[j].ran

\* the timestamps of the points of a batch, in order
Times(points) == [j \in DOMAIN points |-> points[j].time]

\* the clock readings of the sentences that gave a point, in order
RECURSIVE ParsedReads(_)
ParsedReads(log) ==
    IF log = <<>> THEN <<>>
    ELSE IF log[1].out = "parsed"
         THEN <<log[1].read>> \o ParsedReads(Tail(log))
         ELSE ParsedReads(Tail(log))

FinCount(r, counter) ==
    CASE counter = "received" -> Len(fin[r].batch)
      [] counter = "built" -> fin[r].points
      [] counter = "written" ->
            IF fin[r].writes = 1 /\ ~fin[r].failed THEN fin[r].points ELSE 0

RECURSIVE SumFin(_, _)
SumFin(rs, counter) ==
    IF rs = {} THEN 0
    ELSE LET r == CHOOSE x \in rs : TRUE IN
         FinCount(r, counter) + SumFin(rs \ {r}, counter)

AllDone == \A r \in Reqs : pc[r] = "done"

\* C6: however the concurrently served requests interleave, no counter update is
\* lost: each counter equals what the requests added to it, and once all requests
\* have finished sentences_received is the sum of their sentence counts,
\* sentences_parsed the number of points they built and points_written the sum of
\* the sizes of their successfully written batches; last_position and last_update
\* are both empty or a pair written by one position sentence.
C6_NoLostUpdate ==
    /\ stats.sentences_received = acct.received
    /\ stats.sentences_parsed = acct.built
    /\ stats.points_written = acct.written
    /\ AllDone =>
         /\ stats.sentences_received = SumFin(Reqs, "received")
         /\ stats.sentences_parsed = SumFin(Reqs, "built")
         /\ stats.points_written = SumFin(Reqs, "written")
    /\ \/ stats.last_position = <<>> /\ stats.last_update = <<>>
       \/ /\ Len(stats.last_position) = 1
          /\ Len(stats.last_update) = 1
          /\ <<stats.last_position[1], stats.last_update[1]>> \in posWrites

\* all requests have finished, two of them wrote a point and a position was recorded
C6_Witness ==
    /\ AllDone
    /\ stats.points_written >= 2
    /\ stats.sentences_received >= 2
    /\ stats.last_position # <<>>

\* the step in which the write call of request r raises
WriteFailStep(r) == pc[r] = "write" /\ pc'[r] = "done" /\ fin'[r].failed

\* C7: a failed write ends the request in an error and changes nothing in stats: the
\* counts and the position already recorded for the batch stay, points_written does
\* not move; points_written moves only in the step after a write call that returned,
\* by the number of points of that batch; a batch with points gets exactly one write
\* call, never a second one.
C7_WriteFailure ==
    /\ [][\A r \in Reqs :
            WriteFailStep(r) =>
                /\ stats' = stats
                /\ fin'[r].result = "error500"
                /\ fin'[r].writes = 1
                /\ fin'[r].points >= 1
                /\ fin'[r].delta = fin'[r].points
                /\ stats'.sentences_received >= Len(fin'[r].batch)]_vars
    /\ [][stats'.points_written # stats.points_written =>
            \E r \in Reqs :
                /\ pc[r] = "written_write"
                /\ fin[r].writes = 1
                /\ fin'[r].result = "success"
                /\ ~fin'[r].failed
                /\ stats'.points_written = stats.points_written + fin'[r].points]_vars
    /\ [](\A r \in Reqs :
            /\ fin[r].writes <= 1
            /\ fin[r].failed => fin[r].result = "error500"
            /\ pc[r] = "done" => (fin[r].writes = 1 <=> fin[r].points >= 1))

\* a request whose write failed: its sentence is counted as received and parsed, its
\* position is recorded, and nothing is counted as written
C7_Witness ==
    \E r \in Reqs :
        /\ fin[r].failed
        /\ stats.sentences_received >= 1
        /\ stats.sentences_parsed >= 1
        /\ stats.last_position # <<>>
        /\ stats.points_written = 0

\* C8: sentences_parsed grows by one for each point built and by nothing for a
\* skipped sentence: while a batch is processed and when its request has ended the
\* counter has moved by the number of points of the batch, so two requests sent the
\* same batch move it by the same amount.
C8_ParsedCountsPoints ==
    /\ \A r \in Reqs :
         /\ BetweenSentences(r) =>
              stats.sentences_parsed - loc[r].parsed0 = Len(loc[r].points_to_write)
         /\ pc[r] = "done" => fin[r].delta = fin[r].points
    /\ \A r1, r2 \in Reqs :
         (pc[r1] = "done" /\ pc[r2] = "done" /\ fin[r1].batch = fin[r2].batch)
            => fin[r1].delta = fin[r2].delta
    /\ AllDone => stats.sentences_parsed = SumFin(Reqs, "built")

\* the same one-point batch was sent twice and counted twice
C8_Witness ==
    \E r1, r2 \in Reqs :
        /\ r1 # r2
        /\ pc[r1] = "done" /\ pc[r2] = "done"
        /\ fin[r1].batch # <<>>
        /\ fin[r1].batch = fin[r2].batch
        /\ fin[r1].delta = 1 /\ fin[r2].delta = 1
        /\ stats.sentences_parsed >= 2

\* the body cut at every carriage return and every line feed
RECURSIVE CutAtTerminators(_, _)
CutAtTerminators(s, line) ==
    IF s = <<>> THEN <<line>>
    ELSE IF s[1] \in {"\r", "\n"}
         THEN <<line>> \o CutAtTerminators(Tail(s), <<>>)
         ELSE CutAtTerminators(Tail(s), Append(line, s[1]))

\* a line without the blanks around it
RECURSIVE Trim(_)
Trim(line) ==
    IF line = <<>> THEN <<>>
    ELSE IF line[1] = " " THEN Trim(Tail(line))
    ELSE IF line[Len(line)] = " " THEN Trim(SubSeq(line, 1, Len(line) - 1))
    ELSE line

RECURSIVE NonBlank(_)
NonBlank(lines) ==
    IF lines = <<>> THEN <<>>
    ELSE IF Trim(lines[1]) = <<>> THEN NonBlank(Tail(lines))
    ELSE <<Trim(lines[1])>> \o NonBlank(Tail(lines))

\* the lines of a body that are not blank, trimmed, in input order
Candidates(raw_data) == NonBlank(CutAtTerminators(raw_data, <<>>))

\* the requests whose body has been tokenized
Tokenized(r) == pc[r] \notin {"idle", "await_body", "done"}

\* C9 as stated: every candidate begins with "$", so a body without such a line
\* adds nothing to sentences_received.
C9_OnlyDollarLines ==
    \A r \in Reqs :
        \A j \in DOMAIN loc[r].sentences :
            /\ loc[r].sentences[j] # <<>>
            /\ StartsWithDollar(loc[r].sentences[j])
            /\ ~HasNewline(loc[r].sentences[j])

\* C9 as amended: the candidates are, in input order with duplicates kept, all
\* lines of the body that are non-empty after trimming, whether or not they begin
\* with "$"; none holds a line terminator; all of them are counted in
\* sentences_received, and a line that does not begin with "$" is then classified
\* invalid without being decoded; a body that is empty after trimming ends the
\* request in an error and counts nothing.
C9_NonEmptyLines ==
    \A r \in Reqs :
        /\ Tokenized(r) =>
             /\ loc[r].sentences = Candidates(loc[r].raw_data)
             /\ loc[r].sentences # <<>>
             /\ \A j \in DOMAIN loc[r].sentences :
                  /\ loc[r].sentences[j] # <<>>
                  /\ ~HasNewline(loc[r].sentences[j])
             /\ pc[r] # "count_read" /\ pc[r] # "count_write" =>
                  stats.sentences_received = Len(loc[r].sentences)
             /\ \A j \in DOMAIN loc[r].log :
                  ~StartsWithDollar(loc[r].sentences[j]) =>
                      /\ loc[r].log[j].class = "invalid"
                      /\ loc[r].log[j].decoded = "no"
                      /\ loc[r].log[j].out = "skipped"
        /\ (pc[r] = "done" /\ fin[r].result = "error500") =>
             /\ fin[r].batch = <<>>
             /\ stats.sentences_received = 0
        /\ (pc[r] = "done" /\ fin[r].result = "success") =>
             stats.sentences_received = Len(fin[r].batch)

\* a body of two lines that do not begin with "$": both were counted, and both
\* were classified invalid
C9_Witness ==
    \E r \in Reqs :
        /\ pc[r] = "write"
        /\ Len(loc[r].sentences) = 2
        /\ \A j \in 1..2 : ~StartsWithDollar(loc[r].sentences[j])
        /\ stats.sentences_received = 2
        /\ loc[r].skipped_sentences = <<INVALID, INVALID>>

\* the request has run the builder of its sentence: loc[r].msg is the decoded
\* message and loc[r].ret what the builder handed back
Built(r) == loc[r].log # <<>> /\ loc[r].log[Len(loc[r].log)].ran

BuiltFor(r, types) == Built(r) /\ loc[r].sentence_type \in types

\* the attribute is there and converts to a number
Convertible(msg, attr) ==
    /\ HasAttr(msg, attr)
    /\ safe_float(msg[attr]) \notin {PyNone, Raised}

\* C4 as stated: the position builder returns a point if and only if latitude and
\* longitude are both present and convert to a number, zero included, and the
\* point carries the converted coordinates.
C4_PointIffConvertible ==
    \A r \in Reqs :
        (BuiltFor(r, {K_GPGGA, K_GPRMC}) /\ loc[r].ret.kind # "raise") =>
            /\ loc[r].ret.kind = "point"
                  <=> (Convertible(loc[r].msg, "latitude")
                       /\ Convertible(loc[r].msg, "longitude"))
            /\ loc[r].ret.kind = "point" =>
                  /\ loc[r].ret.point.name = "gps_position"
                  /\ loc[r].ret.point.fields["latitude"]
                       = safe_float(loc[r].msg["latitude"])
                  /\ loc[r].ret.point.fields["longitude"]
                       = safe_float(loc[r].msg["longitude"])

\* the fields of the point the request built
Fields(r) == loc[r].ret.point.fields

SpeedFields == {"speed_knots", "speed_mph", "speed_kmh"}

\* C5 as stated: a position point built from a message whose speed over ground is
\* present and converts to a number, zero included, carries speed_knots with
\* speed_mph = speed_knots * 1.15078 and speed_kmh = speed_knots * 1.852, and the
\* three speed fields are present together or absent together.
C5_SpeedFieldsTogether ==
    \A r \in Reqs :
        (BuiltFor(r, {K_GPGGA, K_GPRMC}) /\ loc[r].ret.kind = "point") =>
            /\ Convertible(loc[r].msg, "spd_over_grnd") =>
                  /\ SpeedFields \subseteq DOMAIN Fields(r)
                  /\ Fields(r)["speed_knots"] = safe_float(loc[r].msg["spd_over_grnd"])
            /\ \/ SpeedFields \cap DOMAIN Fields(r) = {}
               \/ /\ SpeedFields \subseteq DOMAIN Fields(r)
                  /\ Fields(r)["speed_knots"].k = "float" =>
                       /\ Fields(r)["speed_mph"]
                            = PyFloat(Fields(r)["speed_knots"].n * MphFactor)
                       /\ Fields(r)["speed_kmh"]
                            = PyFloat(Fields(r)["speed_knots"].n * KmhFactor)

\* the value is missing: no attribute, None or the empty string
Missing(v) == v \in {NoAttr, PyNone, PyStr(<<>>)}

GsvSlotAttrs ==
    {pre \o Pad2(i) : pre \in {"sv_prn_", "elevation_", "azimuth_", "snr_"},
                      i \in 1..GsvSlots}

\* C10: the GSV, GSA and VTG builders return a point exactly when a field other
\* than source_sentence was added, and every point they fill carries
\* source_sentence; a GSA message with nothing in it gives no point; a GSV message
\* with empty satellite slots and valid total_messages, msg_num and num_sv_in_view
\* gives a point with these three fields.
C10_PointIffFieldAdded ==
    \A r \in Reqs :
        (BuiltFor(r, {K_GPGSV, K_GPGSA, K_GPVTG}) /\ loc[r].ret.kind # "raise") =>
            /\ loc[r].ret.kind = "point"
                  <=> DOMAIN Fields(r) \ {"source_sentence"} # {}
            /\ "source_sentence" \in DOMAIN Fields(r)
            /\ Fields(r)["source_sentence"] = PyStr(loc[r].sentence_type)
            /\ (loc[r].sentence_type = K_GPGSA
                /\ (\A a \in DOMAIN loc[r].msg : Missing(loc[r].msg[a])))
                  => loc[r].ret.kind = "none"
            /\ (loc[r].sentence_type = K_GPGSV
                /\ (\A a \in GsvSlotAttrs : Missing(GetAttr(loc[r].msg, a)))
                /\ (\A b \in {"num_messages", "msg_num", "num_sv_in_view"} :
                      /\ HasAttr(loc[r].msg, b)
                      /\ safe_int(loc[r].msg[b]) \notin {PyNone, Raised}))
                  => /\ loc[r].ret.kind = "point"
                     /\ DOMAIN Fields(r) =
                          {"total_messages", "message_number", "satellites_in_view",
                           "source_sentence"}

\* a GSV message with its satellite slots empty and its three counts valid gave a point
C10_Witness ==
    \E r \in Reqs :
        /\ BuiltFor(r, {K_GPGSV})
        /\ (\A a \in GsvSlotAttrs : Missing(GetAttr(loc[r].msg, a)))
        /\ loc[r].ret.kind = "point"
        /\ DOMAIN Fields(r) =
             {"total_messages", "message_number", "satellites_in_view", "source_sentence"}

====
